---- MODULE Spec2Model ----
(***************************************************************************)
(* A model of kittens/unicode_input/main.py: the hint codec, the name      *)
(* search, the candidate Table (selection, layout cache, navigation) and   *)
(* the UnicodeInput session with the tail of main() that records the       *)
(* chosen character.                                                       *)
(*                                                                         *)
(* Python strings are sequences of one-character strings; list indexes     *)
(* are kept 0-based as in the source (a list l is read as l[i + 1]).       *)
(* An absent character (Python None) is the codepoint NoChar.              *)
(***************************************************************************)
EXTENDS Integers, Sequences, FiniteSets, TLC

VARIABLES
    cached_values,  \* the SettingsStore bag: [mode, has_recent, recent]
    recent,         \* UnicodeInput.recent
    current_input,  \* UnicodeInput.current_input
    current_char,   \* UnicodeInput.current_char: a codepoint, or NoChar
    last_updated,   \* UnicodeInput.last_updated_code_point_at
    mode,           \* UnicodeInput.mode
    table,          \* the Table object (a record of its fields)
    screen_size,    \* Handler.screen_size: [rows, cols]
    status,         \* position of the program: "init", "running", "quit", "exited", "failed"
    error,          \* the function an uncaught exception was raised in, or None
    return_code,    \* Loop.return_code
    output,         \* what main() printed after "OK:": a sequence of codepoints
    recent_writes,  \* number of assignments to cached_values['recent'] in this session
    sessions,       \* number of sessions started so far
    names,          \* the codepoint -> name dictionary behind unicode_names
    text,           \* argument of codepoints_matching_search (search specification)
    ans,            \* its result
    num,            \* argument of encode_hint (hint specification)
    hint,           \* encode_hint's result
    decoded,        \* decode_hint's result on hint
    last_layout     \* the calls of Table.layout since the candidates or the
                    \* selection last changed (table specification)

vars == <<cached_values, recent, current_input, current_char, last_updated, mode,
          table, screen_size, status, error, return_code, output, recent_writes,
          sessions, names, text, ans, num, hint, decoded, last_layout>>

\* Python None where a string is expected (a mode, an error)
None == "None"

\* Python None where a codepoint is expected
NoChar == 0 - 1

HEX == "HEX"
NAME == "NAME"
EMOTICONS == "EMOTICONS"

(***************************************************************************)
(* Strings                                                                 *)
(***************************************************************************)

\* string.digits + string.ascii_lowercase, the default of encode_hint's digits
Digits == <<"0", "1", "2", "3", "4", "5", "6", "7", "8", "9",
            "a", "b", "c", "d", "e", "f", "g", "h", "i", "j", "k", "l", "m",
            "n", "o", "p", "q", "r", "s", "t", "u", "v", "w", "x", "y", "z">>

LowerLetters == SubSeq(Digits, 11, 36)

UpperLetters == <<"A", "B", "C", "D", "E", "F", "G", "H", "I", "J", "K", "L", "M",
                  "N", "O", "P", "Q", "R", "S", "T", "U", "V", "W", "X", "Y", "Z">>

Range(s) == {s[i] : i \in 1..Len(s)}

IndexIn(s, ch) == CHOOSE i \in 1..Len(s) : s[i] = ch

Min(a, b) == IF a < b THEN a ELSE b

Max(a, b) == IF a > b THEN a ELSE b

\* str.lower() on one character
LowerCh(ch) == IF ch \in Range(UpperLetters) THEN LowerLetters[IndexIn(UpperLetters, ch)] ELSE ch

\* str.upper() on one character
UpperCh(ch) == IF ch \in Range(LowerLetters) THEN UpperLetters[IndexIn(LowerLetters, ch)] ELSE ch

\* str.lower()
Lower(s) == [i \in 1..Len(s) |-> LowerCh(s[i])]

\* str.capitalize(): first character upper-cased, the rest lower-cased
Capitalize(s) == [i \in 1..Len(s) |-> IF i = 1 THEN UpperCh(s[i]) ELSE LowerCh(s[i])]

IsSpace(ch) == ch = " "

RECURSIVE SplitFrom(_, _, _)
\* str.split() with no separator: maximal runs of non-whitespace characters
SplitFrom(s, i, cur) ==
    IF i > Len(s) THEN (IF cur = <<>> THEN <<>> ELSE <<cur>>)
    ELSE IF IsSpace(s[i])
         THEN (IF cur = <<>> THEN <<>> ELSE <<cur>>) \o SplitFrom(s, i + 1, <<>>)
         ELSE SplitFrom(s, i + 1, Append(cur, s[i]))

Split(s) == SplitFrom(s, 1, <<>>)

\* the Python test  needle in hay  on strings
Contains(hay, needle) ==
    \E i \in 0..(Len(hay) - Len(needle)) : SubSeq(hay, i + 1, i + Len(needle)) = needle

RECURSIVE Strip(_)
\* str.strip()
Strip(s) ==
    IF s = <<>> THEN s
    ELSE IF IsSpace(s[1]) THEN Strip(Tail(s))
    ELSE IF IsSpace(s[Len(s)]) THEN Strip(SubSeq(s, 1, Len(s) - 1))
    ELSE s

\* value of a digit character in int(x, base), -1 when it is no digit at all
DigitVal(ch) == IF LowerCh(ch) \in Range(Digits) THEN IndexIn(Digits, LowerCh(ch)) - 1 ELSE -1

RECURSIVE DigitsValue(_, _, _)
DigitsValue(s, base, acc) ==
    IF s = <<>> THEN acc
    ELSE IF s[1] = "_" THEN DigitsValue(Tail(s), base, acc)
    ELSE DigitsValue(Tail(s), base, acc * base + DigitVal(s[1]))

\* the digit part of an int() literal: digits of the base, single underscores
\* only between digits (or right after a base prefix)
WellFormedDigits(s, base, afterPrefix) ==
    /\ s # <<>>
    /\ \A i \in 1..Len(s) :
         \/ (DigitVal(s[i]) >= 0 /\ DigitVal(s[i]) < base)
         \/ /\ s[i] = "_"
            /\ i < Len(s)
            /\ s[i + 1] # "_"
            /\ (i > 1 \/ afterPrefix)

\* int() on the literal after its sign and base prefix have been read
int_digits(s2, base, negative, prefixed) ==
    IF WellFormedDigits(s2, base, prefixed)
    THEN [ok |-> TRUE,
          val |-> IF negative THEN 0 - DigitsValue(s2, base, 0) ELSE DigitsValue(s2, base, 0)]
    ELSE [ok |-> FALSE, val |-> 0]

\* int() on the literal after its sign has been read
int_unsigned(s1, base, negative) ==
    IF base = 16 /\ Len(s1) >= 2 /\ s1[1] = "0" /\ s1[2] \in {"x", "X"}
    THEN int_digits(SubSeq(s1, 3, Len(s1)), base, negative, TRUE)
    ELSE int_digits(s1, base, negative, FALSE)

\* int() on the stripped literal
int_stripped(s0, base) ==
    IF s0 # <<>> /\ s0[1] \in {"+", "-"}
    THEN int_unsigned(Tail(s0), base, s0[1] = "-")
    ELSE int_unsigned(s0, base, FALSE)

\* int(x, base) for a str x: surrounding whitespace, a sign, for base 16 a
\* 0x prefix, then the digits; [ok |-> FALSE] models ValueError
PyInt(x, base) == int_stripped(Strip(x), base)

(***************************************************************************)
(* Hint codec                                                              *)
(***************************************************************************)

RECURSIVE encode_loop(_, _)
\* encode_hint's while loop from its test on, with (num, res)
encode_loop(n, res) ==
    IF res = <<>> \/ n > 0
    THEN encode_loop(n \div Len(Digits), <<Digits[(n % Len(Digits)) + 1]>> \o res)
    ELSE res

\* encode_hint whose loop runs only while num > 0
encode_hint_while_positive(n) == IF n > 0 THEN encode_loop(n, <<>>) ELSE <<>>

encode_hint(n) == encode_loop(n, <<>>)

\* decode_hint: int(x, 36)
decode_hint(x) == PyInt(x, 36)

(***************************************************************************)
(* Name search                                                             *)
(***************************************************************************)

\* unicode_names.name_for_codepoint: the name of cp, or the empty string
\* where the source gets None and takes  or ''
name_for_codepoint(cp) == IF cp \in DOMAIN names THEN names[cp] ELSE <<>>

\* name(cp): (name_for_codepoint(cp) or '').capitalize()
name(cp) == Capitalize(name_for_codepoint(cp))

\* unicode_names.codepoints_for_word: the codepoints whose name has w among
\* its whitespace-separated lower-case words (NameIndex.indexFor)
points_for_word(w) == {cp \in DOMAIN names : w \in Range(Split(Lower(names[cp])))}

\* the least element of a non-empty set of integers
MinOf(S) == CHOOSE x \in S : \A y \in S : x <= y

RECURSIVE SortedList(_)
\* list(sorted(S)) for a set S of integers
SortedList(S) ==
    IF S = {} THEN <<>> ELSE <<MinOf(S)>> \o SortedList(S \ {MinOf(S)})

RECURSIVE search_words(_, _)

\* search_word without the substring fallback: always the intersection
search_word_no_fallback(codepoints, words, pts) ==
    search_words(codepoints \cap pts, Tail(words))

\* one pass of the for loop of codepoints_matching_search, pts being
\* points_for_word(words[1])
search_word(codepoints, words, pts) ==
    IF pts # {} /\ codepoints \cap pts # {}
    THEN search_words(codepoints \cap pts, Tail(words))
    ELSE search_words({c \in codepoints : Contains(Lower(name(c)), words[1])}, Tail(words))

\* the for loop of codepoints_matching_search over parts[1:]
search_words(codepoints, words) ==
    IF words = <<>> THEN codepoints
    ELSE search_word(codepoints, words, points_for_word(words[1]))

search_parts(parts) ==
    IF parts # <<>> /\ parts[1] # <<>>
    THEN SortedList(search_words(points_for_word(parts[1]), Tail(parts)))
    ELSE <<>>

codepoints_matching_search(t) == search_parts(Split(Lower(t)))

(***************************************************************************)
(* Program constants                                                       *)
(***************************************************************************)

DEFAULT_SET ==
    <<8216, 8217, 8220, 8221, 8249, 8250, 171, 187, 8218, 8222,
      128512, 128539, 128519, 128520, 128521, 128525, 128526, 128558, 128077, 128078,
      8212, 8211, 167, 182, 8224, 8225, 169, 174, 8482,
      8594, 8658, 8226, 183, 176, 177, 8722, 215, 247, 188, 189, 189, 190,
      8230, 181, 162, 163, 8364, 191, 161, 168, 180, 184, 710, 732,
      192, 193, 194, 195, 196, 197, 198, 199, 200, 201, 202, 203,
      204, 205, 206, 207, 208, 209, 210, 211, 212, 213, 214, 216,
      338, 352, 217, 218, 219, 220, 221, 376, 222, 223, 224, 225,
      226, 227, 228, 229, 230, 231, 232, 233, 234, 235, 236, 237,
      238, 239, 240, 241, 242, 243, 244, 245, 246, 248, 339, 353,
      249, 250, 251, 252, 253, 255, 254, 170, 186, 945, 937, 8734>>

\* tuple(range(0x1f600, 0x1f64f + 1))
EMOTICONS_SET == [i \in 1..80 |-> 128511 + i]

\* the cap on col_width in Table.layout
MaxColWidth == 40

(***************************************************************************)
(* Python lists                                                            *)
(***************************************************************************)

\* l[i]: a negative index counts from the end; [ok |-> FALSE] models IndexError
PyIndex(l, i) ==
    IF 0 <= i /\ i < Len(l) THEN [ok |-> TRUE, val |-> l[i + 1]]
    ELSE IF i < 0 /\ 0 - i <= Len(l) THEN [ok |-> TRUE, val |-> l[Len(l) + i + 1]]
    ELSE [ok |-> FALSE, val |-> NoChar]

\* l[:n] for n >= 0
PyPrefix(l, n) == SubSeq(l, 1, Min(n, Len(l)))

\* l.remove(x), with the ValueError of an absent x swallowed as main() does
RemoveFirst(l, x) ==
    IF x \notin Range(l) THEN l
    ELSE LET i == CHOOSE k \in 1..Len(l) : l[k] = x /\ \A j \in 1..(k - 1) : l[j] # x
         IN  SubSeq(l, 1, i - 1) \o SubSeq(l, i + 1, Len(l))

(***************************************************************************)
(* Table                                                                   *)
(***************************************************************************)

\* Table.__init__
NewTable ==
    [layout_dirty |-> TRUE, last_rows |-> 0 - 1, last_cols |-> 0 - 1,
     codepoints |-> <<>>, current_idx |-> 0, text |-> <<>>,
     num_cols |-> 0, num_rows |-> 0, mode |-> HEX]

\* current_codepoint that always reads the first candidate
current_codepoint_first(t) ==
    IF t.codepoints # <<>> THEN PyIndex(t.codepoints, 0)
    ELSE [ok |-> TRUE, val |-> NoChar]

\* Table.current_codepoint: [ok |-> FALSE] models the IndexError of
\* codepoints[current_idx], val = NoChar the None of an empty list
current_codepoint(t) ==
    IF t.codepoints # <<>> THEN PyIndex(t.codepoints, t.current_idx)
    ELSE [ok |-> TRUE, val |-> NoChar]

set_codepoints(t, codepoints, m) ==
    [t EXCEPT !.codepoints = codepoints, !.mode = m,
              !.layout_dirty = TRUE, !.current_idx = 0]

\* codepoint_at that wraps an index past the end around to the start
codepoint_at_wrapped(t, d) ==
    IF d.ok /\ t.codepoints # <<>>
    THEN PyIndex(t.codepoints, d.val % Len(t.codepoints))
    ELSE [ok |-> FALSE, val |-> NoChar]

\* self.codepoints[d] for the decoded hint d
codepoint_at(t, d) ==
    IF d.ok THEN PyIndex(t.codepoints, d.val) ELSE [ok |-> FALSE, val |-> NoChar]

\* Table.codepoint_at_hint: [ok |-> FALSE] models the ValueError of
\* decode_hint or the IndexError of the list access
codepoint_at_hint(t, h) == codepoint_at(t, decode_hint(h))

\* move_cols that stops at the ends instead of wrapping around
move_cols_clamped(t, cols) ==
    IF cols = 0 THEN [raised |-> FALSE, t |-> t]
    ELSE IF Len(t.codepoints) = 0 THEN [raised |-> TRUE, t |-> t]
    ELSE [raised |-> FALSE,
          t |-> [t EXCEPT !.current_idx =
                              Max(0, Min(t.current_idx + cols, Len(t.codepoints) - 1)),
                          !.layout_dirty = TRUE]]

\* the  if cols:  branch of move_current; raised models ZeroDivisionError
move_cols(t, cols) ==
    IF cols = 0 THEN [raised |-> FALSE, t |-> t]
    ELSE IF Len(t.codepoints) = 0 THEN [raised |-> TRUE, t |-> t]
    ELSE [raised |-> FALSE,
          t |-> [t EXCEPT !.current_idx =
                              (t.current_idx + Len(t.codepoints) + cols) % Len(t.codepoints),
                          !.layout_dirty = TRUE]]

\* move_rows without the clamp into [0, len - 1]
move_rows_unclamped(t, rows) ==
    IF rows = 0 THEN t
    ELSE [t EXCEPT !.current_idx = t.current_idx + rows * t.num_cols,
                   !.layout_dirty = TRUE]

\* the  if rows:  branch of move_current
move_rows(t, rows) ==
    IF rows = 0 THEN t
    ELSE [t EXCEPT !.current_idx =
                       Max(0, Min(t.current_idx + rows * t.num_cols, Len(t.codepoints) - 1)),
                   !.layout_dirty = TRUE]

\* the rest of move_current after the  if cols:  branch
move_after_cols(c, rows) ==
    IF c.raised THEN c ELSE [raised |-> FALSE, t |-> move_rows(c.t, rows)]

\* Table.move_current(rows, cols)
move_current(t, rows, cols) == move_after_cols(move_cols(t, cols), rows)

\* str.ljust(width)
ljust(s, width) == s \o [i \in 1..(width - Len(s)) |-> " "]

\* the description of a cell, cut to space_for_desc
cell_desc(desc, space_for_desc) ==
    IF Len(desc) > space_for_desc
    THEN SubSeq(desc, 1, space_for_desc - 1) \o <<"...">>
    ELSE desc

\* as_parts and cell of Table.layout for candidate i: the padded hint, the
\* character, the description cut to space_for_desc and whether the cell is
\* drawn as the current one; colours and padding blanks are left to the renderer
layout_cell(t, i, idx_size, space_for_desc) ==
    [idx |-> ljust(encode_hint(i), idx_size),
     c |-> t.codepoints[i + 1],
     desc |-> IF t.mode = NAME THEN cell_desc(name(t.codepoints[i + 1]), space_for_desc)
              ELSE <<>>,
     current |-> t.mode = NAME /\ i = t.current_idx]

\* the greatest element of a non-empty set of integers
MaxOf(S) == CHOOSE x \in S : \A y \in S : y <= x

\* longest = max(sizes)
layout_longest(t, idx_size) ==
    IF t.mode = NAME
    THEN MaxOf({idx_size + 2 + Len(name(t.codepoints[k])) + 2 : k \in 1..Len(t.codepoints)})
    ELSE idx_size + 3

\* the rows of cells of a layout of n candidates in num_cols >= 1 columns,
\* of which the first `emitted` rows are written
layout_rows(t, n, num_cols, emitted, idx_size, space_for_desc) ==
    [r \in 1..emitted |->
        [k \in 1..Min(num_cols, n - (r - 1) * num_cols) |->
            layout_cell(t, (r - 1) * num_cols + k - 1, idx_size, space_for_desc)]]

\* number of rows written: all `total` of them unless the loop breaks
rows_emitted(rows, total) == IF rows >= 1 THEN Min(rows, total) ELSE total

\* the for loop of Table.layout, in closed form.  Row r (from 0) starts at
\* candidate r * num_cols; before each row but the first rows_left is
\* decremented and the loop breaks when it reaches 0, that is at row r = rows,
\* which only a rows >= 1 ever equals.  buf is the text as a sequence of rows
\* of cells (a '\r\n' starts a new row); raised models the ZeroDivisionError
\* of  i % num_cols, evaluated for every i > 0
layout_loop(t, n, num_cols, rows, idx_size, space_for_desc) ==
    IF num_cols = 0
    THEN IF n > 1 THEN [raised |-> TRUE, buf |-> <<>>]
         ELSE [raised |-> FALSE,
               buf |-> <<[k \in 1..n |-> layout_cell(t, k - 1, idx_size, space_for_desc)]>>]
    ELSE [raised |-> FALSE,
          buf |-> layout_rows(t, n, num_cols, rows_emitted(rows, (n + num_cols - 1) \div num_cols),
                              idx_size, space_for_desc)]

\* the end of Table.layout: the text is stored unless the loop has raised
layout_store(t2, l) ==
    IF l.raised THEN [raised |-> TRUE, cached |-> FALSE, t |-> t2]
    ELSE [raised |-> FALSE, cached |-> FALSE, t |-> [t2 EXCEPT !.text = l.buf]]

\* Table.layout from  num_cols = self.num_cols = cols // col_width  on
layout_grid(t1, rows, cols, idx_size, col_width) ==
    layout_store([t1 EXCEPT !.num_cols = cols \div col_width, !.num_rows = rows],
                 layout_loop(t1, Len(t1.codepoints), cols \div col_width, rows, idx_size,
                             col_width - 2 - idx_size - 4))

\* Table.layout from  idx_size = len(encode_hint(num - 1))  on
layout_sized(t1, rows, cols, idx_size) ==
    layout_grid(t1, rows, cols, idx_size, Min(layout_longest(t1, idx_size) + 2, MaxColWidth))

\* the recomputation of Table.layout, after the cache test
layout_compute(t1, rows, cols) ==
    IF Len(t1.codepoints) < 1
    THEN [raised |-> FALSE, cached |-> FALSE,
          t |-> [t1 EXCEPT !.text = <<>>, !.num_cols = 0, !.num_rows = 0]]
    ELSE layout_sized(t1, rows, cols, Len(encode_hint(Len(t1.codepoints) - 1)))

\* layout without the cache test: every call computes the grid
layout_uncached(t, rows, cols) ==
    layout_compute([t EXCEPT !.last_cols = cols, !.last_rows = rows,
                             !.layout_dirty = FALSE],
                   rows, cols)

\* Table.layout(rows, cols): the returned text is t.text of the result, cached
\* tells that it was returned by the cache test on line 110
layout(t, rows, cols) ==
    IF ~t.layout_dirty /\ t.last_cols = cols /\ t.last_rows = rows
    THEN [raised |-> FALSE, cached |-> TRUE, t |-> t]
    ELSE layout_compute([t EXCEPT !.last_cols = cols, !.last_rows = rows,
                                  !.layout_dirty = FALSE],
                        rows, cols)

(***************************************************************************)
(* UnicodeInput                                                            *)
(***************************************************************************)

\* key_encoding's event types, modifiers and keys
PRESS == "PRESS"
REPEAT == "REPEAT"
RELEASE == "RELEASE"
NOMODS == "NOMODS"
SHIFT == "SHIFT"
CTRL == "CTRL"
TAB == "TAB"
LEFT == "LEFT"
RIGHT == "RIGHT"
UP == "UP"
DOWN == "DOWN"
ESCAPE == "ESCAPE"
F1 == "F1"
F2 == "F2"
F3 == "F3"

\* chr(code): [ok |-> FALSE] models ValueError
chr(code) == [ok |-> 0 <= code /\ code <= 1114111, val |-> code]

\* the value of last_updated_code_point_at: None, or the pair q
NoQuery == [set |-> FALSE, mode |-> None, has_text |-> FALSE, text |-> <<>>]

query_key(md, inp) ==
    IF md = NAME THEN [set |-> TRUE, mode |-> md, has_text |-> TRUE, text |-> inp]
    ELSE [set |-> TRUE, mode |-> md, has_text |-> FALSE, text |-> <<>>]

\* the candidates update_codepoints computes for the mode
mode_codepoints(md, inp, rec) ==
    IF md = HEX THEN rec
    ELSE IF md = EMOTICONS THEN EMOTICONS_SET
    ELSE codepoints_matching_search(inp)

\* update_if_new that sets the candidates on every call
update_always(q, md, inp, last, t, rec) ==
    [last |-> q, t |-> set_codepoints(t, mode_codepoints(md, inp, rec), md)]

\* the end of update_codepoints, from  if q != self.last_updated_code_point_at
update_if_new(q, md, inp, last, t, rec) ==
    IF q # last THEN [last |-> q, t |-> set_codepoints(t, mode_codepoints(md, inp, rec), md)]
    ELSE [last |-> last, t |-> t]

\* UnicodeInput.update_codepoints
update_codepoints(md, inp, last, t, rec) ==
    update_if_new(query_key(md, inp), md, inp, last, t, rec)

\* is_excluded without the test for DEL
is_excluded_without_del(code) ==
    \/ code <= 32
    \/ (128 <= code /\ code <= 159)
    \/ (55296 <= code /\ code <= 56319)
    \/ (56320 <= code /\ code <= 57343)

\* the test on line 243 of update_current_char
is_excluded(code) ==
    \/ code <= 32
    \/ code = 127
    \/ (128 <= code /\ code <= 159)
    \/ (55296 <= code /\ code <= 56319)
    \/ (56320 <= code /\ code <= 57343)

\* chr() of a looked-up codepoint inside a try block: NoChar on any exception
char_or_none(r) == IF r.ok /\ chr(r.val).ok THEN r.val ELSE NoChar

\* the NAME branch of update_current_char on cc = self.table.current_codepoint
name_char(cc) ==
    IF ~cc.ok THEN [raised |-> TRUE, char |-> NoChar]
    ELSE IF cc.val # NoChar /\ cc.val # 0 THEN [raised |-> FALSE, char |-> cc.val]
    ELSE [raised |-> FALSE, char |-> NoChar]

\* UnicodeInput.update_current_char after update_codepoints, before the
\* exclusion test; raised models an exception leaving the NAME branch
resolve_char(md, inp, t) ==
    IF md = HEX
    THEN [raised |-> FALSE,
          char |-> IF inp # <<>> /\ inp[1] = "r" /\ Len(inp) > 1
                   THEN char_or_none(codepoint_at_hint(t, Tail(inp)))
                   ELSE char_or_none(PyInt(inp, 16))]
    ELSE IF md = NAME THEN name_char(current_codepoint(t))
    ELSE [raised |-> FALSE,
          char |-> IF inp # <<>> THEN char_or_none(codepoint_at_hint(t, inp)) ELSE NoChar]

\* the end of update_current_char: the exclusion test on the resolved r
checked_char(u, r) ==
    [raised |-> r.raised, last |-> u.last, t |-> u.t,
     char |-> IF r.char # NoChar /\ is_excluded(r.char) THEN NoChar ELSE r.char]

\* update_current_char after update_codepoints has returned u
char_after_update(md, inp, u) == checked_char(u, resolve_char(md, inp, u.t))

\* UnicodeInput.update_current_char (update_prompt adds only display strings)
update_current_char(md, inp, last, t, rec) ==
    char_after_update(md, inp, update_codepoints(md, inp, last, t, rec))

\* the line of the screen the table starts at, y in draw_screen
table_at(md) == IF md = EMOTICONS THEN 4 ELSE 5

\* UnicodeInput.draw_screen: only the call of Table.layout changes state
draw_screen(md, t, scr) == layout(t, scr.rows - table_at(md), scr.cols)

\* UnicodeInput.__init__ from update_prompt on
constructed(rec, md, u) ==
    [recent |-> rec, mode |-> md, last |-> u.last, t |-> u.t, char |-> u.char]

construct_with(rec, md) ==
    constructed(rec, md, update_current_char(md, <<>>, NoQuery, NewTable, rec))

\* UnicodeInput.__init__ on the stored values cv
Construct(cv) ==
    construct_with(IF cv.has_recent THEN cv.recent ELSE DEFAULT_SET,
                   IF cv.mode \in {HEX, NAME, EMOTICONS} THEN cv.mode ELSE HEX)

\* the state refresh leaves: u from update_prompt, d from draw_screen
refreshed(inp, md, scr, u, d) ==
    /\ current_input' = inp
    /\ mode' = md
    /\ screen_size' = scr
    /\ last_updated' = u.last
    /\ current_char' = u.char
    /\ table' = IF u.raised THEN u.t ELSE d.t
    /\ status' = IF u.raised \/ d.raised THEN "failed" ELSE status
    /\ error' = IF u.raised THEN "update_current_char"
                ELSE IF d.raised THEN "layout" ELSE error

refresh_drawn(inp, md, scr, u) == refreshed(inp, md, scr, u, draw_screen(md, u.t, scr))

\* UnicodeInput.refresh with the input, mode, table and screen size the
\* handler has set before calling it: update_prompt, then draw_screen
Refresh(inp, md, t, scr) ==
    refresh_drawn(inp, md, scr, update_current_char(md, inp, last_updated, t, recent))

(***************************************************************************)
(* Bounds and input sets                                                   *)
(***************************************************************************)

\* longest typed input
MaxInput == 4

\* number of sessions run one after the other on the same SettingsStore
MaxSessions == 2

\* longest search query of the search specification
MaxQuery == 4

\* encode_hint is applied to 0 .. MaxNum - 1
MaxNum == 10000

\* Table.move_current is called with deltas in -MaxDelta .. MaxDelta
MaxDelta == 2

SeqsUpTo(S, n) == UNION {[1..k -> S] : k \in 0..n}

\* the name dictionary of the session and table specifications
NameDict ==
    (97 :> <<"A">>) @@ (98 :> <<"A", " ", "R">>) @@ (99 :> <<"R", "A">>)
    @@ (127 :> <<"A", " ", "R", "A">>) @@ (100 :> <<"R", " ", "A", "R">>)

\* terminal sizes: room for three, one and no column of hex-mode cells, with
\* two lines or no line left for the table
ScreenSizes == {[rows |-> 7, cols |-> 24], [rows |-> 5, cols |-> 12], [rows |-> 7, cols |-> 6]}

\* texts delivered by on_text in the single-session specification
Texts == {<<"a">>, <<"r">>, <<" ">>, <<"7", "f">>, <<"d", "8", "0", "0">>}

\* texts delivered by on_text in the multi-session specification: p (new to
\* the history), y with diaeresis and one half (both in DEFAULT_SET)
SessionTexts == {<<"0", "0", "7", "0">>, <<"0", "0", "f", "f">>, <<"0", "0", "b", "d">>}

\* key events: every key in every phase without modifiers, and some with
KeyEvents ==
    [type : {PRESS, REPEAT, RELEASE}, mods : {NOMODS},
     key : {TAB, LEFT, RIGHT, UP, DOWN, ESCAPE, F1, F2, F3}]
    \cup [type : {PRESS, REPEAT, RELEASE}, mods : {SHIFT}, key : {TAB}]
    \cup [type : {PRESS}, mods : {SHIFT, CTRL}, key : {LEFT, F1}]
    \cup [type : {PRESS}, mods : {CTRL}, key : {TAB}]

(***************************************************************************)
(* The session: Init and one action per handler                            *)
(***************************************************************************)

\* variables of the search and hint specifications
codecVars == <<names, text, ans, num, hint, decoded>>

\* variables of the search, hint and table specifications
funcVars == <<names, text, ans, num, hint, decoded, last_layout>>

\* no call of Table.layout recorded
NoLayout ==
    [calls |-> 0, rows |-> 0, cols |-> 0, text |-> <<>>, cached |-> FALSE, returned |-> <<>>]

\* what no handler of UnicodeInput touches
loopVars == <<recent, return_code, output, recent_writes, sessions>>

EmptyStore == [mode |-> None, has_recent |-> FALSE, recent |-> <<>>]

\* the state after Loop() and UnicodeInput(cached_values) = h
started(h, scr) ==
    /\ recent = h.recent
    /\ mode = h.mode
    /\ last_updated = h.last
    /\ table = h.t
    /\ current_char = h.char
    /\ current_input = <<>>
    /\ screen_size = scr
    /\ status = "init"
    /\ error = None
    /\ return_code = 0
    /\ output = <<>>
    /\ recent_writes = 0

\* main() up to loop.loop(handler): Loop() and UnicodeInput(cached_values)
StartSession(cv, scr) == started(Construct(cv), scr)

FuncInit ==
    /\ names = NameDict
    /\ text = <<>>
    /\ ans = <<>>
    /\ num = 0
    /\ hint = <<>>
    /\ decoded = [ok |-> FALSE, val |-> 0]
    /\ last_layout = NoLayout

Init ==
    /\ cached_values = EmptyStore
    /\ sessions = 1
    /\ \E scr \in ScreenSizes : StartSession(EmptyStore, scr)
    /\ FuncInit

initialized(d) ==
    /\ table' = d.t
    /\ status' = IF d.raised THEN "failed" ELSE "running"
    /\ error' = IF d.raised THEN "layout" ELSE error

\* UnicodeInput.initialize: the first draw_screen
Initialize ==
    /\ status = "init"
    /\ initialized(draw_screen(mode, table, screen_size))
    /\ UNCHANGED <<cached_values, current_input, current_char, last_updated, mode,
                   screen_size>>
    /\ UNCHANGED loopVars
    /\ UNCHANGED funcVars

\* UnicodeInput.on_text
OnText(t) ==
    /\ status = "running"
    /\ Len(current_input) + Len(t) <= MaxInput
    /\ Refresh(current_input \o t, mode, table, screen_size)
    /\ UNCHANGED cached_values
    /\ UNCHANGED loopVars
    /\ UNCHANGED funcVars

\* UnicodeInput.on_key, key_event is backspace_key
OnBackspace ==
    /\ status = "running"
    /\ Refresh(SubSeq(current_input, 1, Len(current_input) - 1), mode, table, screen_size)
    /\ UNCHANGED cached_values
    /\ UNCHANGED loopVars
    /\ UNCHANGED funcVars

\* quit_loop(code): the loop stops with this return code
QuitLoop(code) ==
    /\ status' = "quit"
    /\ return_code' = code
    /\ UNCHANGED <<cached_values, recent, current_input, current_char, last_updated,
                   mode, table, screen_size, error, output, recent_writes, sessions>>
    /\ UNCHANGED funcVars

\* UnicodeInput.on_key, key_event is enter_key
OnEnter ==
    /\ status = "running"
    /\ QuitLoop(0)

\* UnicodeInput.switch_mode
switch_mode(m) ==
    IF m # mode
    THEN /\ cached_values' = [cached_values EXCEPT !.mode = m]
         /\ Refresh(<<>>, m, table, screen_size)
         /\ UNCHANGED loopVars
         /\ UNCHANGED funcVars
    ELSE UNCHANGED vars

mode_of_key(key) == IF key = F1 THEN HEX ELSE IF key = F2 THEN NAME ELSE EMOTICONS

\* the deltas the NAME branch of on_key passes to move_current, nav = FALSE
\* for an event it ignores
nav_delta(ev) ==
    IF ev.key = TAB /\ ev.mods = SHIFT THEN [nav |-> TRUE, rows |-> 0, cols |-> 0 - 1]
    ELSE IF ev.key = TAB /\ ev.mods = NOMODS THEN [nav |-> TRUE, rows |-> 0, cols |-> 1]
    ELSE IF ev.key = LEFT /\ ev.mods = NOMODS THEN [nav |-> TRUE, rows |-> 0, cols |-> 0 - 1]
    ELSE IF ev.key = RIGHT /\ ev.mods = NOMODS THEN [nav |-> TRUE, rows |-> 0, cols |-> 1]
    ELSE IF ev.key = UP /\ ev.mods = NOMODS THEN [nav |-> TRUE, rows |-> 0 - 1, cols |-> 0]
    ELSE IF ev.key = DOWN /\ ev.mods = NOMODS THEN [nav |-> TRUE, rows |-> 1, cols |-> 0]
    ELSE [nav |-> FALSE, rows |-> 0, cols |-> 0]

\* self.refresh() after self.table.move_current(...) has returned m
navigated(m) ==
    IF m.raised
    THEN /\ status' = "failed"
         /\ error' = "move_current"
         /\ UNCHANGED <<cached_values, current_input, current_char, last_updated,
                        mode, table, screen_size>>
         /\ UNCHANGED loopVars
         /\ UNCHANGED funcVars
    ELSE /\ Refresh(current_input, mode, m.t, screen_size)
         /\ UNCHANGED cached_values
         /\ UNCHANGED loopVars
         /\ UNCHANGED funcVars

\* self.table.move_current(...), self.refresh()
navigate(d) == navigated(move_current(table, d.rows, d.cols))

\* the NAME branch of on_key
on_name_key(d) == IF d.nav THEN navigate(d) ELSE UNCHANGED vars

\* UnicodeInput.on_key for every other key event
on_key(ev) ==
    IF ev.type = RELEASE
    THEN IF ev.key = ESCAPE THEN QuitLoop(1)
         ELSE IF ev.key \in {F1, F2, F3} THEN switch_mode(mode_of_key(ev.key))
         ELSE UNCHANGED vars
    ELSE IF mode = NAME THEN on_name_key(nav_delta(ev))
         ELSE UNCHANGED vars

OnKey(ev) ==
    /\ status = "running"
    /\ on_key(ev)

\* UnicodeInput.on_interrupt
OnInterrupt ==
    /\ status = "running"
    /\ QuitLoop(1)

\* UnicodeInput.on_eot
OnEot ==
    /\ status = "running"
    /\ QuitLoop(1)

\* UnicodeInput.on_resize
OnResize(new_size) ==
    /\ status = "running"
    /\ Refresh(current_input, mode, table, new_size)
    /\ UNCHANGED cached_values
    /\ UNCHANGED loopVars
    /\ UNCHANGED funcVars

\* should_record without the test of the return code
should_record_any_code(char, code) == char # NoChar

\* the test of main() after the loop has returned
should_record(char, code) == char # NoChar /\ code = 0

\* recorded_recent without the cut to len(DEFAULT_SET)
recorded_recent_untruncated(rec, c) == <<c>> \o RemoveFirst(rec, c)

\* the list main() stores under 'recent' for the loaded history rec and
\* the chosen character c
recorded_recent(rec, c) == PyPrefix(<<c>> \o RemoveFirst(rec, c), Len(DEFAULT_SET))

\* main() after loop.loop(handler) has returned, up to SystemExit
MainExit ==
    /\ status = "quit"
    /\ status' = "exited"
    /\ IF should_record(current_char, return_code)
       THEN /\ output' = Append(output, current_char)
            /\ recent' = RemoveFirst(recent, current_char)
            /\ cached_values' = [cached_values EXCEPT
                                    !.has_recent = TRUE,
                                    !.recent = recorded_recent(recent, current_char)]
            /\ recent_writes' = recent_writes + 1
            \* in HEX mode table.codepoints is the list object handler.recent
            /\ table' = IF table.mode = HEX
                        THEN [table EXCEPT !.codepoints = RemoveFirst(recent, current_char)]
                        ELSE table
       ELSE UNCHANGED <<output, recent, cached_values, recent_writes, table>>
    /\ UNCHANGED <<current_input, current_char, last_updated, mode, screen_size, error,
                   return_code, sessions>>
    /\ UNCHANGED funcVars

\* a new run's Loop() and UnicodeInput(cached_values) = h
new_session(h, scr) ==
    /\ recent' = h.recent
    /\ mode' = h.mode
    /\ last_updated' = h.last
    /\ table' = h.t
    /\ current_char' = h.char
    /\ current_input' = <<>>
    /\ screen_size' = scr
    /\ status' = "init"
    /\ error' = None
    /\ return_code' = 0
    /\ output' = <<>>
    /\ recent_writes' = 0

\* the program is run again on the store the last run left.  It is run again
\* only after a run that reached SystemExit: a run that failed wrote nothing
\* under 'recent', so the stores it can leave are among those modelled.
NewSession(scr) ==
    /\ status = "exited"
    /\ sessions < MaxSessions
    /\ sessions' = sessions + 1
    /\ new_session(Construct(cached_values), scr)
    /\ UNCHANGED cached_values
    /\ UNCHANGED funcVars

\* one session, every event
Next ==
    \/ Initialize
    \/ \E t \in Texts : OnText(t)
    \/ OnBackspace
    \/ OnEnter
    \/ \E ev \in KeyEvents : OnKey(ev)
    \/ OnInterrupt
    \/ OnEot
    \/ \E new_size \in ScreenSizes : OnResize(new_size)
    \/ MainExit

Spec == Init /\ [][Next]_vars

\* sessions one after the other on the same store, with few texts
NextSessions ==
    \/ Initialize
    \/ \E t \in SessionTexts : OnText(t)
    \/ OnBackspace
    \/ OnEnter
    \/ \E ev \in KeyEvents : OnKey(ev)
    \/ OnInterrupt
    \/ OnEot
    \/ MainExit
    \/ \E scr \in {[rows |-> 7, cols |-> 24]} : NewSession(scr)

InitSessions ==
    /\ cached_values = EmptyStore
    /\ sessions = 1
    /\ StartSession(EmptyStore, [rows |-> 7, cols |-> 24])
    /\ FuncInit

SpecSessions == InitSessions /\ [][NextSessions]_vars

(***************************************************************************)
(* One session in which hints are typed                                    *)
(***************************************************************************)

\* the characters typed: the marker of HEX mode, two digits of a hint, and
\* characters that are no digit of a hint
HintChars == {"r", "1", "z", "A", "-", "+", "_", " "}

\* the keys that switch to the two modes that read hints
HintModeKeys == [type : {RELEASE}, mods : {NOMODS}, key : {F1, F3}]

NextTyping ==
    \/ Initialize
    \/ \E ch \in HintChars : OnText(<<ch>>)
    \/ OnBackspace
    \/ \E ev \in HintModeKeys : OnKey(ev)

SpecTyping == InitSessions /\ [][NextTyping]_vars

(***************************************************************************)
(* One session that starts in NAME mode                                    *)
(***************************************************************************)

\* the store a run that switched to NAME mode has left
NameStore == [mode |-> NAME, has_recent |-> FALSE, recent |-> <<>>]

NameTexts == {<<"a">>, <<"r">>, <<" ">>}

\* the navigation keys in every phase
NameKeys ==
    [type : {PRESS, REPEAT, RELEASE}, mods : {NOMODS}, key : {TAB, LEFT, RIGHT, UP, DOWN}]
    \cup [type : {PRESS, REPEAT, RELEASE}, mods : {SHIFT}, key : {TAB}]

InitNaming ==
    /\ cached_values = NameStore
    /\ sessions = 1
    /\ \E scr \in ScreenSizes : StartSession(NameStore, scr)
    /\ FuncInit

NextNaming ==
    \/ Initialize
    \/ \E t \in NameTexts : OnText(t)
    \/ OnBackspace
    \/ OnEnter
    \/ \E ev \in NameKeys : OnKey(ev)
    \/ \E new_size \in ScreenSizes : OnResize(new_size)
    \/ MainExit

SpecNaming == InitNaming /\ [][NextNaming]_vars

(***************************************************************************)
(* The search function alone                                               *)
(***************************************************************************)

\* the session's variables where no session runs
NoSession ==
    /\ cached_values = EmptyStore
    /\ recent = <<>>
    /\ current_input = <<>>
    /\ current_char = NoChar
    /\ last_updated = NoQuery
    /\ mode = HEX
    /\ table = NewTable
    /\ screen_size = [rows |-> 0, cols |-> 0]
    /\ error = None
    /\ return_code = 0
    /\ output = <<>>
    /\ recent_writes = 0
    /\ sessions = 0

sessionVars == <<cached_values, recent, current_input, current_char, last_updated, mode,
                 table, screen_size, error, return_code, output, recent_writes, sessions>>

\* the characters of a query and the dictionaries it is run against
QueryChars == {"a", "b", "B", " "}

SearchNames == {<<"A">>, <<"A", " ", "B">>, <<"A", "B">>, <<"B", "A", " ", "A">>}

Dictionaries == [{65, 66, 67} -> SearchNames]

InitSearch ==
    /\ NoSession
    /\ status = "init"
    /\ names \in Dictionaries
    /\ text \in SeqsUpTo(QueryChars, MaxQuery)
    /\ ans = <<>>
    /\ num = 0
    /\ hint = <<>>
    /\ decoded = [ok |-> FALSE, val |-> 0]
    /\ last_layout = NoLayout

\* a call of codepoints_matching_search(text)
Search ==
    /\ status = "init"
    /\ ans' = codepoints_matching_search(text)
    /\ status' = "returned"
    /\ UNCHANGED sessionVars
    /\ UNCHANGED <<names, text, num, hint, decoded, last_layout>>

NextSearch == Search

SpecSearch == InitSearch /\ [][NextSearch]_vars

(***************************************************************************)
(* The hint codec alone                                                    *)
(***************************************************************************)

InitHint ==
    /\ NoSession
    /\ status = "init"
    /\ names = NameDict
    /\ text = <<>>
    /\ ans = <<>>
    /\ num \in 0..(MaxNum - 1)
    /\ hint = <<>>
    /\ decoded = [ok |-> FALSE, val |-> 0]
    /\ last_layout = NoLayout

\* a call of encode_hint(num)
Encode ==
    /\ status = "init"
    /\ hint' = encode_hint(num)
    /\ status' = "encoded"
    /\ UNCHANGED sessionVars
    /\ UNCHANGED <<names, text, ans, num, decoded, last_layout>>

\* a call of decode_hint on the encoded hint
Decode ==
    /\ status = "encoded"
    /\ decoded' = decode_hint(hint)
    /\ status' = "returned"
    /\ UNCHANGED sessionVars
    /\ UNCHANGED <<names, text, ans, num, hint, last_layout>>

NextHint == Encode \/ Decode

SpecHint == InitHint /\ [][NextHint]_vars

(***************************************************************************)
(* The Table alone, called with any arguments                              *)
(***************************************************************************)

TableLists == {<<>>, <<97>>, <<97, 98, 99>>, <<97, 98, 99, 100, 127>>}

TableRows == {0, 2}

TableCols == {5, 24}

Deltas == (0 - MaxDelta)..MaxDelta

tableFrame == <<cached_values, recent, current_input, current_char, last_updated, mode,
                screen_size, status, return_code, output, recent_writes, sessions>>

InitTable ==
    /\ cached_values = EmptyStore
    /\ recent = <<>>
    /\ current_input = <<>>
    /\ current_char = NoChar
    /\ last_updated = NoQuery
    /\ mode = HEX
    /\ table = NewTable
    /\ screen_size = [rows |-> 0, cols |-> 0]
    /\ status = "running"
    /\ error = None
    /\ return_code = 0
    /\ output = <<>>
    /\ recent_writes = 0
    /\ sessions = 0
    /\ FuncInit

\* the table and the exception a call leaves
table_called(r, where) ==
    /\ table' = r.t
    /\ error' = IF r.raised THEN where ELSE None

\* Table.set_codepoints(codepoints, m)
TSet(codepoints, m) ==
    /\ table' = set_codepoints(table, codepoints, m)
    /\ error' = None
    /\ last_layout' = NoLayout
    /\ UNCHANGED tableFrame
    /\ UNCHANGED codecVars

\* Table.move_current(rows, cols)
TMove(rows, cols) ==
    /\ table_called(move_current(table, rows, cols), "move_current")
    /\ last_layout' = IF rows = 0 /\ cols = 0 THEN last_layout ELSE NoLayout
    /\ UNCHANGED tableFrame
    /\ UNCHANGED codecVars

\* what a call of layout(rows, cols) that returned r leaves in last_layout:
\* the arguments and the text returned by the first of the calls made in a
\* row with these arguments, how many they are (2 for two and more), the text
\* the last of them returned and whether the cache test returned it
layout_recorded(r, rows, cols) ==
    IF r.raised THEN NoLayout
    ELSE IF last_layout.calls >= 1 /\ last_layout.rows = rows /\ last_layout.cols = cols
    THEN [last_layout EXCEPT !.calls = 2, !.cached = r.cached, !.returned = r.t.text]
    ELSE [calls |-> 1, rows |-> rows, cols |-> cols, text |-> r.t.text,
          cached |-> r.cached, returned |-> r.t.text]

layout_called(r, rows, cols) ==
    /\ table_called(r, "layout")
    /\ last_layout' = layout_recorded(r, rows, cols)

\* Table.layout(rows, cols)
TLayout(rows, cols) ==
    /\ layout_called(layout(table, rows, cols), rows, cols)
    /\ UNCHANGED tableFrame
    /\ UNCHANGED codecVars

NextTable ==
    \/ \E codepoints \in TableLists, m \in {HEX, NAME} : TSet(codepoints, m)
    \/ \E rows \in Deltas, cols \in Deltas : TMove(rows, cols)
    \/ \E rows \in TableRows, cols \in TableCols : TLayout(rows, cols)

SpecTable == InitTable /\ [][NextTable]_vars

(***************************************************************************)
(* Properties                                                              *)
(***************************************************************************)

IsPrefix(a, b) == Len(a) <= Len(b) /\ SubSeq(b, 1, Len(a)) = a

NoDuplicates(l) == \A i, j \in 1..Len(l) : l[i] = l[j] => i = j

\* the words of a string: its maximal runs of characters other than blanks,
\* in order, each given by where it starts
WordStarts(q) == {i \in 1..Len(q) : q[i] # " " /\ (i = 1 \/ q[i - 1] = " ")}

WordEnd(q, i) == MinOf({j \in i..Len(q) : j = Len(q) \/ q[j + 1] = " "})

WordFrom(q, i) == SubSeq(q, i, WordEnd(q, i))

\* the k-th word of q, from 1
NthWord(q, k) ==
    WordFrom(q, CHOOSE i \in WordStarts(q) : Cardinality({j \in WordStarts(q) : j < i}) = k - 1)

\* the candidates a later word leaves of prev: the intersection with its
\* index pts when that is not empty, else those whose lower-case name
\* contains the word
Narrowed(prev, pts, word) ==
    IF prev \cap pts # {} THEN prev \cap pts
    ELSE {c \in prev : Contains(Lower(names[c]), word)}

RECURSIVE Candidates(_, _)
\* the candidates left after the first k words of the lower-cased query q
Candidates(q, k) ==
    IF k = 1 THEN points_for_word(NthWord(q, 1))
    ELSE Narrowed(Candidates(q, k - 1), points_for_word(NthWord(q, k)), NthWord(q, k))

Resolved(q) ==
    IF WordStarts(q) = {} THEN {} ELSE Candidates(q, Cardinality(WordStarts(q)))

\* C1: the search returns, strictly ascending (so without duplicates), exactly
\* the codepoints left by the word-by-word rule: the index of the first word
\* of the lower-cased query, narrowed by each later word to the intersection
\* with its index when that is not empty and else to the candidates whose
\* lower-case name contains the word; no words give the empty list
C1_SearchResolves ==
    status = "returned" =>
        /\ \A i \in 1..(Len(ans) - 1) : ans[i] < ans[i + 1]
        /\ Range(ans) = Resolved(Lower(text))

\* a two-word query whose second word shares no codepoint with the first in
\* the index and is found as a substring of a candidate's name
C1_Witness ==
    /\ status = "returned"
    /\ Cardinality(WordStarts(text)) = 2
    /\ points_for_word(NthWord(Lower(text), 1)) \cap points_for_word(NthWord(Lower(text), 2)) = {}
    /\ ans # <<>>

\* C2: every encoded index decodes to itself, the hint is a non-empty string
\* of the digits 0-9a-z, and 0 is encoded as "0"
C2_HintRoundTrip ==
    /\ status \in {"encoded", "returned"} =>
          /\ hint # <<>>
          /\ \A i \in 1..Len(hint) : hint[i] \in Range(Digits)
          /\ (num = 0 => hint = <<"0">>)
    /\ status = "returned" => (decoded.ok /\ decoded.val = num)

C2_Witness ==
    /\ status = "returned"
    /\ num = 9999
    /\ hint = <<"7", "p", "r">>
    /\ decoded.val = 9999

\* C3: whenever the candidate list is not empty the selection index is one
\* of its positions
C3_SelectionInRange ==
    table.codepoints # <<>> =>
        (0 <= table.current_idx /\ table.current_idx < Len(table.codepoints))

\* navigation has moved the selection to the last of three candidates
C3_Witness ==
    /\ status = "running"
    /\ mode = NAME
    /\ Len(table.codepoints) = 3
    /\ table.current_idx = 2

\* C4: on a table of n >= 1 candidates a column move by c sets the selection
\* to (i + c) mod n, a row move by r sets it to i + r * k clamped into
\* [0, n - 1], k being the column count of the layout, both mark the layout
\* dirty, and a move by nothing changes nothing
C4_MoveBy ==
    [][\A r \in Deltas, c \in Deltas :
         (Len(table.codepoints) >= 1 /\ TMove(r, c)) =>
            /\ (c # 0 /\ r = 0) =>
                  /\ table'.current_idx = (table.current_idx + c) % Len(table.codepoints)
                  /\ table'.layout_dirty
            /\ (c = 0 /\ r # 0) =>
                  /\ table'.current_idx =
                        Max(0, Min(table.current_idx + r * table.num_cols,
                                   Len(table.codepoints) - 1))
                  /\ table'.layout_dirty
            /\ (c = 0 /\ r = 0) => table' = table]_vars

\* the selection is on the last of five candidates, where only a move takes it
C4_Witness ==
    /\ Len(table.codepoints) = 5
    /\ table.current_idx = 4
    /\ table.layout_dirty
    /\ table.num_cols = 2

\* the exclusion set: C0 controls, DEL, the C1 range, the surrogate halves
InExclusionSet(code) ==
    \/ (0 <= code /\ code <= 31)
    \/ code = 127
    \/ (128 <= code /\ code <= 159)
    \/ (55296 <= code /\ code <= 57343)

\* C5: the current character is absent or outside the exclusion set, and no
\* excluded codepoint is printed or stored in the recent history
C5_NoExcludedCharacter ==
    /\ current_char # NoChar => ~InExclusionSet(current_char)
    /\ \A i \in 1..Len(output) : ~InExclusionSet(output[i])
    /\ \A i \in 1..Len(cached_values.recent) : ~InExclusionSet(cached_values.recent[i])

\* the hex code of DEL has been typed and the current character is absent
C5_Witness ==
    /\ status = "running"
    /\ mode = HEX
    /\ current_input = <<"7", "f">>
    /\ current_char = NoChar

\* C6: a run exits with return code 0 only when it has printed exactly one
\* codepoint, and a run that printed nothing exits with another code
C6_SuccessOnlyWithOutput ==
    status = "exited" =>
        /\ (return_code = 0 => Len(output) = 1)
        /\ (Len(output) = 0 => return_code # 0)

\* C7: in NAME mode with no candidates no navigation event ends the session
\* with an exception raised in move_current
C7_NavigationOnEmptyListSurvives ==
    ~(/\ status = "failed"
      /\ error = "move_current"
      /\ mode = NAME
      /\ table.codepoints = <<>>)

\* C8: the recent history, as loaded by a session and as stored, never holds
\* a codepoint twice
C8_HistoryHasNoDuplicates ==
    /\ NoDuplicates(recent)
    /\ NoDuplicates(cached_values.recent)

\* what cached_values.get('recent', DEFAULT_SET) returns
StoredHistory(cv) == IF cv.has_recent THEN cv.recent ELSE DEFAULT_SET

OthersThan(l, c) == SelectSeq(l, LAMBDA x : x # c)

\* C9: the step that records a confirmed character c stores a history with c
\* in front, followed by the entries stored before in their order, cut to
\* the capacity len(DEFAULT_SET); the stored history is never longer
C9_ConfirmMovesToFront ==
    /\ [](Len(StoredHistory(cached_values)) <= Len(DEFAULT_SET))
    /\ [][(status = "quit" /\ status' = "exited" /\ output' # output) =>
            /\ cached_values'.has_recent
            /\ cached_values'.recent[1] = current_char
            /\ IsPrefix(OthersThan(Tail(cached_values'.recent), current_char),
                        OthersThan(StoredHistory(cached_values), current_char))
            /\ Len(cached_values'.recent) =
                  Min(Len(DEFAULT_SET),
                      Len(RemoveFirst(StoredHistory(cached_values), current_char)) + 1)]_vars

\* a second run has recorded p, which the full history did not hold: it is in
\* front and the history is still as long as DEFAULT_SET
C9_Witness ==
    /\ status = "exited"
    /\ sessions = 2
    /\ output = <<112>>
    /\ cached_values.recent[1] = 112
    /\ Len(cached_values.recent) = Len(DEFAULT_SET)
    /\ cached_values.recent[2] \in {255, 189}

\* C10: 'recent' is assigned at most once in a run, and only by the exit of a
\* run whose loop returned 0 with a current character; every other step, so
\* every run ended by Escape, interrupt or end of input, leaves it as it was
C10_RecentWrittenOnlyOnConfirm ==
    /\ [](recent_writes <= 1)
    /\ [][(\/ cached_values'.recent # cached_values.recent
           \/ cached_values'.has_recent # cached_values.has_recent
           \/ recent_writes' > recent_writes) =>
            /\ status = "quit"
            /\ status' = "exited"
            /\ return_code = 0
            /\ current_char # NoChar]_vars

\* a second run was cancelled with a character resolved and wrote nothing
C10_Witness ==
    /\ status = "exited"
    /\ sessions = 2
    /\ return_code = 1
    /\ current_char # NoChar
    /\ recent_writes = 0
    /\ cached_values.has_recent

\* the hint in the typed input: all of it in EMOTICONS mode, what follows
\* the marker r in HEX mode, and nothing otherwise
TypedHint ==
    IF mode = EMOTICONS THEN current_input
    ELSE IF mode = HEX /\ Len(current_input) > 1 /\ current_input[1] = "r"
    THEN Tail(current_input)
    ELSE <<>>

HasForeignChar(h) == \E i \in 1..Len(h) : h[i] \notin Range(Digits)

\* C11: for a typed hint with a character outside 0-9a-z, decode_hint fails
\* and the current character is absent
C11_InvalidHintNeverResolves ==
    (status = "running" /\ HasForeignChar(TypedHint)) =>
        /\ ~decode_hint(TypedHint).ok
        /\ current_char = NoChar

RECURSIVE HintValue(_)
\* the number a string of the digits 0-9a-z denotes in base 36
HintValue(h) ==
    IF h = <<>> THEN 0
    ELSE HintValue(SubSeq(h, 1, Len(h) - 1)) * 36 + (IndexIn(Digits, h[Len(h)]) - 1)

\* the lookup r of a hint denoting k, and the current character it leaves
HintLooksUp(k, r) ==
    IF k < Len(table.codepoints)
    THEN /\ r.ok
         /\ r.val = table.codepoints[k + 1]
         /\ current_char = IF InExclusionSet(r.val) THEN NoChar ELSE r.val
    ELSE /\ ~r.ok
         /\ current_char = NoChar

\* C12: for a typed hint of the digits 0-9a-z that denotes k, codepoint_at_hint
\* returns candidate k when k is less than the number of candidates and fails
\* otherwise; when it fails the current character is absent, and no handler
\* ends with an exception
C12_HintLookup ==
    /\ status # "failed"
    /\ (status = "running" /\ TypedHint # <<>> /\ ~HasForeignChar(TypedHint)) =>
          HintLooksUp(HintValue(TypedHint), codepoint_at_hint(table, TypedHint))

\* in HEX mode the hint zz, far past the end of the history, has been typed
\* after the marker and no character is current
C12_Witness ==
    /\ status = "running"
    /\ mode = HEX
    /\ current_input = <<"r", "z", "z">>
    /\ table.codepoints = DEFAULT_SET
    /\ current_char = NoChar

\* the candidate source of a mode with nothing typed
ModeSource(m) ==
    IF m = HEX THEN recent ELSE IF m = EMOTICONS THEN EMOTICONS_SET ELSE <<>>

\* the release of the key that requests mode m
SwitchKey(m) ==
    [type |-> RELEASE, mods |-> NOMODS,
     key |-> IF m = HEX THEN F1 ELSE IF m = NAME THEN F2 ELSE F3]

\* C13: in every state of a running session and for each of the three modes,
\* handling the release of its key leaves the session in that mode with
\* nothing typed, no current character, the selection on 0, the candidates
\* of that mode in the table and that mode stored under 'mode'
C13_ModeSwitchResets ==
    status = "running" =>
        \A m \in {HEX, NAME, EMOTICONS} :
            ENABLED (/\ OnKey(SwitchKey(m))
                     /\ mode' = m
                     /\ current_input' = <<>>
                     /\ current_char' = NoChar
                     /\ table'.current_idx = 0
                     /\ table'.codepoints = ModeSource(m)
                     /\ cached_values'.mode = m)

\* the navigation keys of NAME mode, and the keys that switch mode or cancel
NavKeys ==
    [mods : {NOMODS}, key : {TAB, LEFT, RIGHT, UP, DOWN}] \cup [mods : {SHIFT}, key : {TAB}]

ControlKeys == {F1, F2, F3, ESCAPE}

KeyIn(k, ty) == [type |-> ty, mods |-> k.mods, key |-> k.key]

\* where a navigation key takes the selection i among n candidates laid out
\* in num_cols columns: one on or back with wrap-around, a row up or down
\* stopping at the ends
NavTarget(k, i, n, num_cols) ==
    IF k.key = UP THEN Max(0, i - num_cols)
    ELSE IF k.key = DOWN THEN Min(n - 1, i + num_cols)
    ELSE IF k.key = LEFT \/ k.mods = SHIFT THEN (i + n - 1) % n
    ELSE (i + 1) % n

\* every navigation key, in the phase ty, moves the selection to its target
NavMoves(ty) ==
    \A k \in NavKeys :
        ENABLED (/\ OnKey(KeyIn(k, ty))
                 /\ table'.current_idx =
                       NavTarget(k, table.current_idx, Len(table.codepoints), table.num_cols))

\* C14: in a running session the press or repeat of F1, F2, F3 or Escape
\* changes neither the mode nor the state of the loop, their release does
\* (Escape ends the loop, an F key of another mode switches to it), and in
\* NAME mode with two or more candidates a navigation key moves the
\* selection to its target in each of the phases press, repeat and release
C14_KeyPhases ==
    status = "running" =>
        /\ \A key \in ControlKeys, ty \in {PRESS, REPEAT} :
              ENABLED (/\ OnKey([type |-> ty, mods |-> NOMODS, key |-> key])
                       /\ mode' = mode
                       /\ status' = status
                       /\ current_input' = current_input)
        /\ ENABLED (/\ OnKey([type |-> RELEASE, mods |-> NOMODS, key |-> ESCAPE])
                    /\ status' = "quit")
        /\ (mode = NAME /\ Len(table.codepoints) >= 2) =>
              (NavMoves(RELEASE) /\ NavMoves(REPEAT) /\ NavMoves(PRESS))

\* C15: when layout was called twice or more in a row with the same rows and
\* cols, with no set_codepoints and no move by a non-zero delta in between,
\* the last call returned the stored text at the cache test, without
\* computing the grid, and that text is the one the first call returned
C15_LayoutCached ==
    last_layout.calls = 2 =>
        /\ last_layout.cached
        /\ last_layout.returned = last_layout.text

\* a grid of five candidates in NAME mode has been returned a second time
C15_Witness ==
    /\ last_layout.calls = 2
    /\ last_layout.cached
    /\ Len(table.codepoints) = 5
    /\ table.mode = NAME
    /\ last_layout.returned # <<>>
    /\ last_layout.returned = table.text

\* a full computation succeeds and gives the text the last call returned
Recomputed(full) == ~full.raised /\ full.t.text = last_layout.returned

\* C16: the text the last call of layout returned is the text a full
\* computation from the table's candidates, selection and mode and the
\* call's rows and cols gives
C16_CacheCoherent ==
    last_layout.calls >= 1 =>
        Recomputed(layout_compute(table, last_layout.rows, last_layout.cols))

\* the width of a cell of the table's grid
CellWidth(t) ==
    Min(layout_longest(t, Len(encode_hint(Len(t.codepoints) - 1))) + 2, MaxColWidth)

\* C17: after a call of layout with fewer columns than a cell is wide, on a
\* table that is not empty, the call has not raised, the table reports 0
\* columns and its text is empty
C17_NarrowTerminal ==
    (/\ table.codepoints # <<>>
     /\ ~table.layout_dirty
     /\ table.last_cols >= 0
     /\ table.last_cols < CellWidth(table)) =>
        /\ error # "layout"
        /\ table.num_cols = 0
        /\ table.text = <<>>

\* C18: the table drawn by a running session has at most as many rows of
\* cells as the screen has lines from the table's first line on, none when
\* that number is 0 or less
C18_RowsLimit ==
    status = "running" =>
        Len(table.text) <= Max(0, screen_size.rows - table_at(mode))

\* update_codepoints, as the refresh after a navigation key calls it on the
\* moved table m.t, leaves the candidates as they were and the selection on
\* the key's target
SelectionKept(k, u) ==
    /\ u.t.codepoints = table.codepoints
    /\ u.t.current_idx =
          NavTarget(k, table.current_idx, Len(table.codepoints), table.num_cols)

NavRefreshed(k, d) ==
    SelectionKept(k, update_codepoints(mode, current_input, last_updated,
                                       move_current(table, d.rows, d.cols).t, recent))

\* C19: in NAME mode the pair of the last recomputation is (NAME, typed
\* text); a step that changes the text leaves the candidates of the new text
\* in the table with the selection on 0, a step that does not change the text
\* leaves the candidates as they were, a resize leaves the selection where it
\* was, and the refresh that follows the move of a navigation key leaves the
\* candidates as they were and the selection on the key's target
C19_NameRecompute ==
    /\ [](mode = NAME => last_updated = query_key(NAME, current_input))
    /\ []((status = "running" /\ mode = NAME /\ table.codepoints # <<>>) =>
            \A k \in NavKeys : NavRefreshed(k, nav_delta(KeyIn(k, PRESS))))
    /\ [][(status = "running" /\ mode = NAME /\ mode' = NAME) =>
            /\ (current_input' # current_input) =>
                  /\ Range(table'.codepoints) = Resolved(Lower(current_input'))
                  /\ table'.current_idx = 0
            /\ (current_input' = current_input) => table'.codepoints = table.codepoints
            /\ (screen_size' # screen_size) => table'.current_idx = table.current_idx]_vars

\* the selection is on the second of the three candidates of the query a,
\* after a navigation key and with the text as it was
C19_Witness ==
    /\ status = "running"
    /\ mode = NAME
    /\ current_input = <<"a">>
    /\ last_updated.text = <<"a">>
    /\ table.codepoints = <<97, 98, 127>>
    /\ table.current_idx = 1
    /\ screen_size = [rows |-> 5, cols |-> 12]

\* the candidate the selection is on, absent when there is none or when it is
\* in the exclusion set
Highlighted ==
    IF table.codepoints = <<>> THEN NoChar
    ELSE IF InExclusionSet(table.codepoints[table.current_idx + 1]) THEN NoChar
    ELSE table.codepoints[table.current_idx + 1]

====
